---- MODULE Spec2Model ----
\* Model of DataLoader.merge_with_bundesland (src/data_processing/data_loader.py):
\* a facility table is enriched with a 'bundesland' column by an exact lookup of
\* the cleaned city name in a city -> Bundesland dict, followed by a
\* character-set fuzzy fallback.  Strings are sequences of one-character
\* strings; pandas' missing value is the token NaN.
EXTENDS Integers, Sequences, FiniteSets, TLC

\* ---------------------------------------------------------------- values
\* missing value in a string column (a token no real character equals)
NaN == <<"nan">>
\* missing value in the Bundesland column
NA == "NaN"
NoMatch == <<"None">>

\* str.lower() on the characters that occur in the modelled strings
LowerMap == [c \in {"A", "B", "M", "N"} |->
               CASE c = "A" -> "a" [] c = "B" -> "b" [] c = "M" -> "m" [] c = "N" -> "n"]

Lower(c) == IF c \in DOMAIN LowerMap THEN LowerMap[c] ELSE c

\* the whitespace characters str.strip() removes that occur in the model
Whitespace == {" ", "\t"}

RECURSIVE StripLeft(_)
StripLeft(s) == IF s # <<>> /\ Head(s) \in Whitespace THEN StripLeft(Tail(s)) ELSE s

\* mutant: only one trailing whitespace character is removed
StripRightOnce(s) == IF s # <<>> /\ s[Len(s)] \in Whitespace THEN SubSeq(s, 1, Len(s) - 1) ELSE s

RECURSIVE StripRight(_)
StripRight(s) == IF s # <<>> /\ s[Len(s)] \in Whitespace THEN StripRight(SubSeq(s, 1, Len(s) - 1)) ELSE s

\* Series.str.strip().str.lower(); a missing value stays missing
Clean(s) == IF s = NaN THEN NaN
            ELSE LET t == StripRight(StripLeft(s)) IN [i \in DOMAIN t |-> Lower(t[i])]

CharSet(s) == {s[i] : i \in DOMAIN s}

Max(a, b) == IF a >= b THEN a ELSE b

\* Scores are fractions [num, den]; the initial best_score 0 is 0/1.
Zero == [num |-> 0, den |-> 1]
Half == [num |-> 1, den |-> 2]
Gt(x, y) == x.num * y.den > y.num * x.den

\* mutant: standard Jaccard similarity (union size as denominator)
ScoreJaccard(a, b) == [num |-> Cardinality(CharSet(a) \cap CharSet(b)),
                       den |-> Cardinality(CharSet(a) \cup CharSet(b))]

\* len(set(a) & set(b)) / max(len(set(a)), len(set(b)))
Score(a, b) == [num |-> Cardinality(CharSet(a) \cap CharSet(b)),
                den |-> Max(Cardinality(CharSet(a)), Cardinality(CharSet(b)))]

\* division by zero: both character sets empty
ScoreRaises(a, b) == Max(Cardinality(CharSet(a)), Cardinality(CharSet(b))) = 0

\* mutant: threshold compared with >=
AboveThresholdGe(s) == ~Gt(Half, s)

\* score > 0.5
AboveThreshold(s) == Gt(s, Half)

\* ---------------------------------------------------------------- mapping
\* mutant: first row wins for a duplicated key
RECURSIVE BuildMappingFirst(_, _)
BuildMappingFirst(rows, m) ==
  IF rows = <<>> THEN m
  ELSE LET k == Clean(Head(rows).Stadt)
           v == Head(rows).Bundesland
       IN BuildMappingFirst(Tail(rows),
            IF k \in DOMAIN m THEN m
            ELSE [x \in DOMAIN m \cup {k} |-> IF x = k THEN v ELSE m[x]])

\* mutant: the two columns zipped off by one row, each name paired with the
\* next row's Bundesland
RECURSIVE BuildMappingShift(_, _)
BuildMappingShift(rows, m) ==
  IF Len(rows) < 2 THEN m
  ELSE LET k == Clean(Head(rows).Stadt)
           v == Head(Tail(rows)).Bundesland
       IN BuildMappingShift(Tail(rows),
            [x \in DOMAIN m \cup {k} |-> IF x = k THEN v ELSE m[x]])

\* dict(zip(cities_clean['Stadt_clean'], cities_clean['Bundesland'])):
\* later rows overwrite earlier ones
RECURSIVE BuildMapping(_, _)
BuildMapping(rows, m) ==
  IF rows = <<>> THEN m
  ELSE LET k == Clean(Head(rows).Stadt)
           v == Head(rows).Bundesland
       IN BuildMapping(Tail(rows),
            [x \in DOMAIN m \cup {k} |-> IF x = k THEN v ELSE m[x]])

EmptyMap == [x \in {} |-> NA]

\* cities_clean['Stadt_clean'].unique() filtered by pd.notna, in order of
\* first appearance
RECURSIVE UniqueNames(_, _)
UniqueNames(rows, acc) ==
  IF rows = <<>> THEN acc
  ELSE LET k == Clean(Head(rows).Stadt)
       IN UniqueNames(Tail(rows),
            IF k = NaN \/ k \in {acc[i] : i \in DOMAIN acc} THEN acc ELSE Append(acc, k))

\* ---------------------------------------------------------------- fuzzy pass
\* mutant: best_score is not compared, the last candidate above 0.5 wins
RECURSIVE FuzzyBestNoMax(_, _, _)
FuzzyBestNoMax(city, cands, best) ==
  IF cands = <<>> \/ best.raised THEN best
  ELSE LET c == Head(cands)
       IN IF ScoreRaises(city, c) THEN [best EXCEPT !.raised = TRUE]
          ELSE LET s == Score(city, c)
               IN FuzzyBestNoMax(city, Tail(cands),
                    IF AboveThreshold(s) THEN [match |-> c, score |-> s, raised |-> FALSE]
                    ELSE best)

\* mutant: ">=" instead of ">" against best_score, the last of equal scores wins
RECURSIVE FuzzyBestTieLast(_, _, _)
FuzzyBestTieLast(city, cands, best) ==
  IF cands = <<>> \/ best.raised THEN best
  ELSE LET c == Head(cands)
       IN IF ScoreRaises(city, c) THEN [best EXCEPT !.raised = TRUE]
          ELSE LET s == Score(city, c)
               IN FuzzyBestTieLast(city, Tail(cands),
                    IF ~Gt(best.score, s) /\ AboveThreshold(s)
                    THEN [match |-> c, score |-> s, raised |-> FALSE]
                    ELSE best)

\* the inner "for available_city in ..." loop: a candidate replaces the best
\* only if score > best_score and score > 0.5
RECURSIVE FuzzyBest(_, _, _)
FuzzyBest(city, cands, best) ==
  IF cands = <<>> \/ best.raised THEN best
  ELSE LET c == Head(cands)
       IN IF ScoreRaises(city, c) THEN [best EXCEPT !.raised = TRUE]
          ELSE LET s == Score(city, c)
               IN FuzzyBest(city, Tail(cands),
                    IF Gt(s, best.score) /\ AboveThreshold(s)
                    THEN [match |-> c, score |-> s, raised |-> FALSE]
                    ELSE best)

NoBest == [match |-> NoMatch, score |-> Zero, raised |-> FALSE]

\* ---------------------------------------------------------------- the merge
\* mutant: only an empty facility table returns early
EarlyReturnDfOnly(d, cols, c) == Len(d) = 0 \/ cols = {}

\* if df.empty or cities_df.empty: return df
\* (DataFrame.empty: no rows or no columns; the reference table always has
\* its Stadt and Bundesland columns)
EarlyReturn(d, cols, c) == Len(d) = 0 \/ cols = {} \/ Len(c) = 0

\* a column whose values are all missing: read_csv gives it float64 dtype,
\* and .str on it raises; the same values in an object column (a row subset
\* of a column that also held strings, or None values) do not raise
AllMissing(d) == \A i \in DOMAIN d : d[i] = NaN

\* the same for the reference table's Stadt column
AllMissingStadt(c) == \A j \in DOMAIN c : c[j].Stadt = NaN

\* the dtypes a column can have: float64 only if all its values are missing
DfDtypes(d) == IF Len(d) > 0 /\ AllMissing(d) THEN BOOLEAN ELSE {FALSE}
CitiesDtypes(c) == IF Len(c) > 0 /\ AllMissingStadt(c) THEN BOOLEAN ELSE {FALSE}

SampleSize == 5

\* Per-facility result of the merge for the facility at index i, given the
\* mapping m, the candidate names and the row's 'bundesland' value ex after
\* line 216: kept if present, else the fuzzy loop runs for a non-NaN city.
FacResult(d, m, cands, i, ex) ==
  LET nc == Clean(d[i])
  IN IF ex # NA
     THEN [region |-> ex, method |-> "exact", matched |-> nc, score |-> Zero, raised |-> FALSE]
     ELSE IF nc = NaN
     THEN [region |-> NA, method |-> "none", matched |-> NoMatch, score |-> Zero, raised |-> FALSE]
     ELSE LET b == FuzzyBest(nc, cands, NoBest)
          IN IF b.raised
             THEN [region |-> NA, method |-> "none", matched |-> NoMatch, score |-> Zero, raised |-> TRUE]
             ELSE IF b.match # NoMatch
             THEN [region |-> m[b.match], method |-> "fuzzy", matched |-> b.match,
                   score |-> b.score, raised |-> FALSE]
             ELSE [region |-> NA, method |-> "none", matched |-> NoMatch, score |-> b.score,
                   raised |-> FALSE]

\* mutant: the raw names without unique()
RECURSIVE UnmatchedSampleDup(_, _, _)
UnmatchedSampleDup(d, reg, acc) ==
  IF d = <<>> THEN acc
  ELSE UnmatchedSampleDup(Tail(d), Tail(reg),
         IF Head(reg) = NA /\ Len(acc) < SampleSize THEN Append(acc, Head(d)) ELSE acc)

\* df[df['bundesland'].isna()][col].unique()[:5]
RECURSIVE UnmatchedSample(_, _, _)
UnmatchedSample(d, reg, acc) ==
  IF d = <<>> THEN acc
  ELSE UnmatchedSample(Tail(d), Tail(reg),
         IF Head(reg) = NA /\ Len(acc) < SampleSize /\ ~(Head(d) \in {acc[j] : j \in DOMAIN acc})
         THEN Append(acc, Head(d)) ELSE acc)

NoStats == [total_rows |-> 0, matched_rows |-> 0, sample |-> <<>>]

\* ---------------------------------------------------------------- bounds
MaxFacilities == 2
MaxRefs == 2
CityPool == {NaN, <<" ">>, <<" ", "A", "b">>, <<"a", "b", "c", " ">>, <<"b">>}
StadtPool == {<<>>, <<"a", "b">>, <<"B", "a">>, <<"a", "b", "c">>}
RegionPool == {"X", "Y"}
\* malformed rows: a missing Stadt, and a missing Bundesland with an empty
\* and with a real name
RowPool == [Stadt : StadtPool, Bundesland : RegionPool] \cup
           {[Stadt |-> NaN, Bundesland |-> "X"],
            [Stadt |-> <<>>, Bundesland |-> NA], [Stadt |-> <<"a", "b">>, Bundesland |-> NA]}

\* the scenario strings of the reference table [Berlin -> Berlin, München -> Bayern]
Berlin == <<"B", "e", "r", "l", "i", "n">>
Muenchen == <<"M", "u", "e", "n", "c", "h", "e", "n">>
Muenchen2 == <<"M", "u:", "n", "c", "h", "e", "n">>
Nowhereville == <<"N", "o", "w", "h", "e", "r", "e", "v", "i", "l", "l", "e">>
BerlinSpace == <<"b", "e", "r", "l", "i", "n", " ">>
ScenarioCities == <<[Stadt |-> Berlin, Bundesland |-> "Berlin"],
                    [Stadt |-> Muenchen2, Bundesland |-> "Bayern"]>>
ScenarioCityPool == {Muenchen, Nowhereville, BerlinSpace, NaN, <<" ">>}
MaxScenarioFacilities == 3

SeqsUpTo(S, n) == UNION {[1..k -> S] : k \in 0..n}

\* ---------------------------------------------------------------- the call
\* result of a call that hands the input df back (early return or except),
\* with the step it left at
InputResult(d, st) ==
  [outcome |-> "input", stage |-> st, bundesland |-> <<>>,
   method |-> [i \in DOMAIN d |-> "none"], matched |-> [i \in DOMAIN d |-> NoMatch],
   score |-> [i \in DOMAIN d |-> Zero], stats |-> NoStats]

\* where the call leaves before the fuzzy pass: "early" (the return at line
\* 202), "col" (line 208 raises: no column col, KeyError, or a float64
\* column, AttributeError), "stadt" (line 210 raises on a float64 Stadt
\* column), else "mapped"
PreStage(d, cols, c, dfloat, cfloat) ==
  IF EarlyReturn(d, cols, c) THEN "early"
  ELSE IF "city" \notin cols \/ (dfloat /\ AllMissing(d)) THEN "col"
  ELSE IF cfloat /\ AllMissingStadt(c) THEN "stadt"
  ELSE "mapped"

\* df_enhanced[f'{col}_clean'].map(city_bundesland_mapping)
MapColumn(d, m) == [i \in DOMAIN d |-> IF Clean(d[i]) \in DOMAIN m THEN m[Clean(d[i])] ELSE NA]

\* mutant: a 'bundesland' column the input already has is kept where it holds
\* a value, the mapping only fills its gaps (combine_first)
BundeslandColumnFillna(prior, mapped) ==
  IF prior = <<>> THEN mapped
  ELSE [i \in DOMAIN mapped |-> IF prior[i] # NA THEN prior[i] ELSE mapped[i]]

\* df_enhanced['bundesland'] = <Series>: the assignment replaces the column,
\* whatever the input's 'bundesland' column (prior, <<>> for none) held
BundeslandColumn(prior, mapped) == mapped

\* merge_with_bundesland(d, col) on a df whose 'bundesland' column holds prior
\* (<<>> for none), as a function of its inputs: cols are df's columns, col
\* being "city" (the loaders pass the city column they found, which is
\* modelled as {"city"}); dfloat / cfloat tell whether df[col] / cities_df['Stadt']
\* has float64 dtype; every exception is caught and the input df is returned.
MergeResultOn(d, prior, c, cols, dfloat, cfloat) ==
  LET st0 == PreStage(d, cols, c, dfloat, cfloat)
  IN IF st0 # "mapped" THEN InputResult(d, st0)
  ELSE LET m == BuildMapping(c, EmptyMap)
           cands == UniqueNames(c, <<>>)
           col == BundeslandColumn(prior, MapColumn(d, m))
           r == [i \in DOMAIN d |-> FacResult(d, m, cands, i, col[i])]
       IN IF \E i \in DOMAIN d : r[i].raised THEN InputResult(d, "score")
          ELSE LET reg == [i \in DOMAIN d |-> r[i].region]
                   nm == Cardinality({i \in DOMAIN d : reg[i] # NA})
               IN [outcome |-> "enhanced", stage |-> "ok", bundesland |-> reg,
                   method |-> [i \in DOMAIN d |-> r[i].method],
                   matched |-> [i \in DOMAIN d |-> r[i].matched],
                   score |-> [i \in DOMAIN d |-> r[i].score],
                   stats |-> [total_rows |-> Len(d), matched_rows |-> nm,
                              sample |-> IF nm < Len(d) THEN UnmatchedSample(d, reg, <<>>)
                                         ELSE <<>>]]

\* the call on a df without a 'bundesland' column
MergeResult(d, c, cols, dfloat, cfloat) == MergeResultOn(d, <<>>, c, cols, dfloat, cfloat)

\* f'{df_city_column}_clean' for df_city_column = 'city'
CleanColumn == "city_clean"
CitiesColumns == {"Stadt", "Bundesland"}

\* ---------------------------------------------------------------- table objects
\* The DataFrame objects of a call: the caller's df and cities_df, the copies
\* df.copy() and cities_df.copy(), and the new object drop() returns.  Each
\* has its columns and whether its 'bundesland' column holds values this call
\* wrote (fresh) rather than the input's.
DfObjects == {"df", "df_copy", "df_dropped", "cities", "cities_copy"}
CopyObject(st, src, dst) == [st EXCEPT ![dst] = st[src]]
SetColumn(st, o, col) ==
  [st EXCEPT ![o] = [cols |-> st[o].cols \cup {col}, fresh |-> st[o].fresh \/ col = "bundesland"]]
DropColumn(st, src, dst, col) ==
  [st EXCEPT ![dst] = [cols |-> st[src].cols \ {col}, fresh |-> st[src].fresh]]

\* mutant: df_enhanced = df, without the copy
WorkingDfInPlace == "df"

\* df_enhanced = df.copy()
WorkingDf == "df_copy"

\* mutant: the except clause returns the working table df_enhanced
ErrorReturnWorking(w) == w

\* except Exception: return df
ErrorReturn(w) == "df"

\* the writes of lines 205-243 up to the step st where the call left, and
\* the object it returns: the early return (202) before any copy; line 208
\* raises before its write, line 210 after the clean column was written and
\* before its own; a ZeroDivisionError in the fuzzy loop after line 216
MergeObjects(cols, ccols, st) ==
  LET w == WorkingDf
      s0 == [o \in DfObjects |->
               [cols |-> IF o = "df" THEN cols ELSE IF o = "cities" THEN ccols ELSE {},
                fresh |-> FALSE]]
      s1 == IF st = "early" THEN s0 ELSE CopyObject(s0, "df", w)
      s2 == IF st \in {"stadt", "score", "ok"} THEN SetColumn(s1, w, CleanColumn) ELSE s1
      s3 == IF st \in {"stadt", "score", "ok"} THEN CopyObject(s2, "cities", "cities_copy") ELSE s2
      s4 == IF st \in {"score", "ok"} THEN SetColumn(s3, "cities_copy", "Stadt_clean") ELSE s3
      s5 == IF st \in {"score", "ok"} THEN SetColumn(s4, w, "bundesland") ELSE s4
      s6 == IF st = "ok" THEN DropColumn(s5, w, "df_dropped", CleanColumn) ELSE s5
  IN [store |-> s6,
      returned |-> IF st = "ok" THEN "df_dropped" ELSE IF st = "early" THEN "df" ELSE ErrorReturn(w)]

\* ---------------------------------------------------------------- pipeline
Datasets == {"parks", "cemetery", "camping"}
PossibleCityColumns == <<"city", "City", "name", "Name", "stadt", "Stadt">>

\* the first of possible_city_columns present in the columns, or None
CityColumnOf(cols) ==
  LET hits == {k \in DOMAIN PossibleCityColumns : PossibleCityColumns[k] \in cols}
  IN IF hits = {} THEN "None"
     ELSE PossibleCityColumns[CHOOSE k \in hits : \A k2 \in hits : k <= k2]

\* A CSV row: its city value and whether its geometry value is present.
\* process_geometry_column drops the rows without a geometry (dropna); without
\* a geometry column its df[geometry_col] raises and the df is kept whole.
ProcessedCities(rows, cols) ==
  LET kept == IF "geometry" \in cols THEN SelectSeq(rows, LAMBDA r : r.geom) ELSE rows
  IN [i \in DOMAIN kept |-> kept[i].city]

\* read_csv gives a column with no value at all float64 dtype; a row subset
\* keeps the dtype of the column it was cut from
CsvFloat(rows) == Len(rows) > 0 /\ \A i \in DOMAIN rows : rows[i].city = NaN

\* load_parks_data / load_cemetery_data (the second definitions, which
\* override the first) merge with the cities when the CSV (d, before the
\* geometry processing) and the cities are non-empty and a city column
\* exists; load_camping_data never merges.
MergesDataset(ds, d, cols, c) ==
  /\ ds \in {"parks", "cemetery"}
  /\ Len(d) > 0
  /\ Len(c) > 0
  /\ CityColumnOf(cols) # "None"

\* ---------------------------------------------------------------- bounds (2)
MaxStrLen == 3
NormAlphabet == {" ", "\t", "A", "a", "b"}
MaxShardFacilities == 2
MaxShardRefs == 2
ShapeColumns == {"city_clean", "bundesland", "area_ha"}
PipeDfPool == {<<>>, <<[city |-> <<"a", "b">>, geom |-> TRUE]>>, <<[city |-> NaN, geom |-> TRUE]>>,
               <<[city |-> <<"a", "b">>, geom |-> FALSE]>>,
               <<[city |-> <<"a", "b">>, geom |-> FALSE], [city |-> NaN, geom |-> TRUE]>>}
PipeColsPool == {{"geometry"}, {"city", "geometry"}, {"Name", "geometry"}}
PipeCitiesPool == {<<>>, <<[Stadt |-> <<"a", "b">>, Bundesland |-> "X"]>>}

\* ---------------------------------------------------------------- state
VARIABLES pc,
          df, cities_df, has_city_column, outcome, bundesland, method,
          matched, score, stats, in_columns, out_columns, caller_columns, returned_alias,
          again_outcome, again_regions,
          split, shard_result,
          norm_in, norm_once, norm_twice,
          facility_data, facility_cols, pipe_cities, merged_datasets, region_col,
          load_ds, load_cols, load_rows, load_gdf_idx, load_cities,
          used_col_df, used_col_gdf, df_region, gdf_region,
          view_data, view_hascol, view_r1, view_r2, filt_out1, filt_out2, view_stats,
          slider_min, slider_max, manual_min, manual_max, slider_range, min_groesse,
          last_set, last_event, ui_events,
          calc_in, calc_out,
          df_float, cities_float,
          in_regions, merge_stage, caller_cities_columns, caller_fresh, out_fresh,
          area_range

mergeVars == <<df, cities_df, has_city_column, outcome, bundesland, method,
               matched, score, stats, in_columns, out_columns, caller_columns, returned_alias,
               again_outcome, again_regions, df_float, cities_float,
               in_regions, merge_stage, caller_cities_columns, caller_fresh, out_fresh>>
shardVars == <<split, shard_result>>
normVars == <<norm_in, norm_once, norm_twice>>
loadVars == <<load_ds, load_cols, load_rows, load_gdf_idx, load_cities,
               used_col_df, used_col_gdf, df_region, gdf_region>>
viewVars == <<view_data, view_hascol, view_r1, view_r2, filt_out1, filt_out2, view_stats>>
uiVars == <<slider_min, slider_max, manual_min, manual_max, slider_range, min_groesse,
             last_set, last_event, ui_events, area_range>>
calcVars == <<calc_in, calc_out>>
pipeVars == <<facility_data, facility_cols, pipe_cities, merged_datasets, region_col, loadVars,
              viewVars, uiVars, calcVars>>
vars == <<pc, mergeVars, shardVars, normVars, pipeVars>>

NoShard == [bundesland |-> <<>>, stats |-> NoStats]

MergeOutputsInit ==
  /\ outcome = "none"
  /\ bundesland = <<>>
  /\ method = <<>>
  /\ matched = <<>>
  /\ score = <<>>
  /\ stats = NoStats
  /\ out_columns = {}
  /\ caller_columns = in_columns
  /\ returned_alias = FALSE
  /\ merge_stage = "none"
  /\ caller_cities_columns = CitiesColumns
  /\ caller_fresh = FALSE
  /\ out_fresh = FALSE
  /\ again_outcome = "none"
  /\ again_regions = <<>>

\* the dtypes of the input's city column and of the cities' Stadt column
InputDtypes == df_float \in DfDtypes(df) /\ cities_float \in CitiesDtypes(cities_df)

MergeIdle ==
  /\ df = <<>> /\ cities_df = <<>> /\ has_city_column = TRUE
  /\ df_float = FALSE /\ cities_float = FALSE
  /\ in_columns = {"city"} /\ in_regions = <<>>
  /\ MergeOutputsInit

ShardIdle == split = 0 /\ shard_result = NoShard
LoadOutputsInit ==
  /\ used_col_df = "unused" /\ used_col_gdf = "unused"
  /\ df_region = FALSE /\ gdf_region = FALSE
LoadIdle ==
  /\ load_ds = "parks" /\ load_cols = {} /\ load_rows = <<>> /\ load_gdf_idx = {}
  /\ load_cities = <<>>
  /\ LoadOutputsInit
NoRegionStats == [total_locations |-> 0, total_area |-> 0,
                  parks_count |-> 0, cemetery_count |-> 0, camping_count |-> 0]
ViewOutputsInit == filt_out1 = {} /\ filt_out2 = {} /\ view_stats = NoRegionStats
ViewIdle ==
  /\ view_data = [x \in Datasets |-> <<>>] /\ view_hascol = [x \in Datasets |-> FALSE]
  /\ view_r1 = "X" /\ view_r2 = "Y"
  /\ ViewOutputsInit
UiIdle ==
  /\ slider_min = 0 /\ slider_max = 0 /\ manual_min = 0 /\ manual_max = 0
  /\ slider_range = <<0, 0>> /\ min_groesse = <<0, 0>>
  /\ last_set = <<0, 0>> /\ last_event = "none" /\ ui_events = 0 /\ area_range = <<0, 0>>
CalcIdle == calc_in = "none" /\ calc_out = "none"
NormIdle == norm_in = <<>> /\ norm_once = <<>> /\ norm_twice = <<>>
PipeIdle ==
  /\ facility_data = [x \in Datasets |-> <<>>]
  /\ facility_cols = [x \in Datasets |-> {}]
  /\ pipe_cities = <<>>
  /\ merged_datasets = {}
  /\ region_col = [x \in Datasets |-> FALSE]
  /\ LoadIdle
  /\ ViewIdle /\ UiIdle /\ CalcIdle

\* the region names X and Y are interchangeable for the merge: one reference
\* table per renaming, the one where X appears before Y
RegionOrderCanonical(c) ==
  \A j \in DOMAIN c : c[j].Bundesland = "Y" => \E j2 \in 1..(j - 1) : c[j2].Bundesland = "X"

Init ==
  /\ df \in SeqsUpTo(CityPool, MaxFacilities)
  /\ cities_df \in {c \in SeqsUpTo(RowPool, MaxRefs) : RegionOrderCanonical(c)}
  /\ InputDtypes
  /\ has_city_column = TRUE
  /\ in_columns = {"city", "area_ha"} /\ in_regions = <<>>
  /\ pc = "call"
  /\ MergeOutputsInit
  /\ ShardIdle /\ NormIdle /\ PipeIdle

\* the merge's effect on the merge variables: the result, and the columns of
\* the caller's tables and of the returned table after the call's writes
ApplyMerge ==
  \E res \in {MergeResultOn(df, in_regions, cities_df, in_columns, df_float, cities_float)} :
  LET obj == MergeObjects(in_columns, CitiesColumns, res.stage)
  IN /\ outcome' = res.outcome
     /\ merge_stage' = res.stage
     /\ bundesland' = res.bundesland
     /\ method' = res.method
     /\ matched' = res.matched
     /\ score' = res.score
     /\ stats' = res.stats
     /\ out_columns' = obj.store[obj.returned].cols
     /\ out_fresh' = obj.store[obj.returned].fresh
     /\ caller_columns' = obj.store["df"].cols
     /\ caller_fresh' = obj.store["df"].fresh
     /\ caller_cities_columns' = obj.store["cities"].cols
     /\ returned_alias' = (obj.returned = "df")
     /\ UNCHANGED <<df, cities_df, has_city_column, in_columns, again_outcome, again_regions,
                    df_float, cities_float, in_regions>>

\* merge_with_bundesland(df, cities_df, col): the whole call, including the
\* catch-all "except Exception: return df".
MergeWithBundesland ==
  /\ pc = "call"
  /\ pc' = "done"
  /\ ApplyMerge
  /\ UNCHANGED <<shardVars, normVars, pipeVars>>

Next == MergeWithBundesland

Spec == Init /\ [][Next]_vars

\* the reference table of the example scenarios, facility tables over the
\* scenario city names
InitScenario ==
  /\ df \in SeqsUpTo(ScenarioCityPool, MaxScenarioFacilities)
  /\ cities_df = ScenarioCities
  /\ InputDtypes
  /\ has_city_column = TRUE
  /\ in_columns = {"city"} /\ in_regions = <<>>
  /\ pc = "call"
  /\ MergeOutputsInit
  /\ ShardIdle /\ NormIdle /\ PipeIdle

SpecScenario == InitScenario /\ [][Next]_vars

\* facility tables carrying other columns, among them a pre-existing
\* 'bundesland' or 'city_clean' column, with or without the city column
InitShape ==
  /\ df \in SeqsUpTo(CityPool, 1)
  /\ cities_df \in SeqsUpTo(RowPool, 1)
  /\ InputDtypes
  /\ has_city_column \in BOOLEAN
  /\ in_columns \in {(IF has_city_column THEN {"city"} ELSE {}) \cup S : S \in SUBSET ShapeColumns}
  /\ in_regions \in (IF "bundesland" \in in_columns THEN [DOMAIN df -> {"Y", NA}] ELSE {<<>>})
  /\ pc = "call"
  /\ MergeOutputsInit
  /\ ShardIdle /\ NormIdle /\ PipeIdle

SpecShape == InitShape /\ [][Next]_vars

\* many facilities with distinct and repeated unmatched city names against a
\* one-row reference table
SampleCities == <<[Stadt |-> <<"a", "b">>, Bundesland |-> "X"]>>
SampleCityOrder == <<<<"c">>, <<"d">>, <<"e">>, <<"f">>, <<"g">>>>
\* the reference name itself, matched exactly, and names that match nothing
SampleMatched == <<"a", "b">>
SampleCityPool == {SampleCityOrder[k] : k \in DOMAIN SampleCityOrder} \cup {NaN, SampleMatched}
MaxSampleFacilities == 6
\* the names c..g score 0 against the reference name and are
\* interchangeable: one table per renaming, each of them first appearing in
\* SampleCityOrder order; the missing value and the matched name are kept as
\* they are
SampleIdx(x) == CHOOSE k \in DOMAIN SampleCityOrder : SampleCityOrder[k] = x
IsSampleName(x) == x \notin {NaN, SampleMatched}
FirstAppearanceOrdered(d) ==
  \A i \in DOMAIN d : IsSampleName(d[i]) =>
    \A k \in 1..(SampleIdx(d[i]) - 1) : \E j \in 1..(i - 1) : IsSampleName(d[j]) /\ SampleIdx(d[j]) = k

InitSample ==
  /\ df \in {d \in SeqsUpTo(SampleCityPool, MaxSampleFacilities) : FirstAppearanceOrdered(d)}
  /\ cities_df = SampleCities
  /\ InputDtypes
  /\ has_city_column = TRUE
  /\ in_columns = {"city"} /\ in_regions = <<>>
  /\ pc = "call"
  /\ MergeOutputsInit
  /\ ShardIdle /\ NormIdle /\ PipeIdle

SpecSample == InitSample /\ [][Next]_vars

\* resolving a table, which may carry a stale 'bundesland' column, then
\* resolving the returned table again with the same reference table and city
\* column
MaxTwiceFacilities == 2
MaxTwiceRefs == 1

InitTwice ==
  /\ df \in SeqsUpTo(CityPool, MaxTwiceFacilities)
  /\ cities_df \in {c \in SeqsUpTo(RowPool, MaxTwiceRefs) : RegionOrderCanonical(c)}
  /\ InputDtypes
  /\ has_city_column = TRUE
  /\ in_columns \in {{"city"}, {"city", "bundesland"}}
  /\ in_regions \in (IF "bundesland" \in in_columns THEN [DOMAIN df -> {"Y", NA}] ELSE {<<>>})
  /\ pc = "call"
  /\ MergeOutputsInit
  /\ ShardIdle /\ NormIdle /\ PipeIdle

\* the first call, as merge_with_bundesland
ResolveFirst ==
  /\ pc = "call"
  /\ pc' = "again"
  /\ ApplyMerge
  /\ UNCHANGED <<shardVars, normVars, pipeVars>>

\* the 'bundesland' column of the table the first call returned (<<>> for
\* none): this call's values, or the input's when the caller's df came back
FirstOutRegions ==
  IF "bundesland" \notin out_columns THEN <<>>
  ELSE IF out_fresh THEN bundesland ELSE in_regions

\* the second call on the returned table: its city column is the input's
\* (the call writes only the clean and 'bundesland' columns) and has the same
\* dtype; its 'bundesland' column is the first call's result
ResolveAgain ==
  /\ pc = "again"
  /\ pc' = "done"
  /\ \E res2 \in {MergeResultOn(df, FirstOutRegions, cities_df, in_columns, df_float,
                                 cities_float)} :
       /\ again_outcome' = res2.outcome
       /\ again_regions' = IF res2.outcome = "enhanced" THEN res2.bundesland ELSE FirstOutRegions
  /\ UNCHANGED <<df, cities_df, has_city_column, outcome, bundesland, method, matched, score,
                 stats, in_columns, out_columns, caller_columns, returned_alias,
                 df_float, cities_float, in_regions, merge_stage, caller_cities_columns,
                 caller_fresh, out_fresh, shardVars, normVars, pipeVars>>

NextTwice == ResolveFirst \/ ResolveAgain

SpecTwice == InitTwice /\ [][NextTwice]_vars

\* ---------------------------------------------------------------- normalization
\* .str.strip().str.lower() applied to one city string, then to its result
InitNormalize ==
  /\ norm_in \in SeqsUpTo(NormAlphabet, MaxStrLen)
  /\ norm_once = <<>>
  /\ norm_twice = <<>>
  /\ pc = "normalize"
  /\ MergeIdle /\ ShardIdle /\ PipeIdle

NormalizeOnce ==
  /\ pc = "normalize"
  /\ pc' = "normalized"
  /\ norm_once' = Clean(norm_in)
  /\ UNCHANGED <<norm_in, norm_twice, mergeVars, shardVars, pipeVars>>

NormalizeAgain ==
  /\ pc = "normalized"
  /\ pc' = "done"
  /\ norm_twice' = Clean(norm_once)
  /\ UNCHANGED <<norm_in, norm_once, mergeVars, shardVars, pipeVars>>

NextNormalize == NormalizeOnce \/ NormalizeAgain

SpecNormalize == InitNormalize /\ [][NextNormalize]_vars

\* ---------------------------------------------------------------- sharding
\* a shard's rows with its regions, NaN where the shard call returned its input
FilledRegions(r, d) == IF r.outcome = "enhanced" THEN r.bundesland ELSE [i \in DOMAIN d |-> NA]

RECURSIVE FirstN(_, _)
FirstN(q, n) == IF q = <<>> \/ n = 0 THEN <<>> ELSE <<Head(q)>> \o FirstN(Tail(q), n - 1)

\* merging two shard results: concatenate regions, sum counts, concatenate
\* the samples and cap at 5
ShardCombine(r1, r2, d1, d2) ==
  [bundesland |-> FilledRegions(r1, d1) \o FilledRegions(r2, d2),
   stats |-> [total_rows |-> r1.stats.total_rows + r2.stats.total_rows,
              matched_rows |-> r1.stats.matched_rows + r2.stats.matched_rows,
              sample |-> FirstN(r1.stats.sample \o r2.stats.sample, SampleSize)]]

InitShard ==
  /\ df \in {d \in SeqsUpTo(CityPool, MaxShardFacilities) : Len(d) >= 2}
  /\ split \in 1..(Len(df) - 1)
  /\ cities_df \in SeqsUpTo(RowPool, MaxShardRefs)
  /\ InputDtypes
  /\ has_city_column = TRUE
  /\ in_columns = {"city"} /\ in_regions = <<>>
  /\ pc = "call"
  /\ MergeOutputsInit
  /\ shard_result = NoShard
  /\ NormIdle /\ PipeIdle

\* one call over all facilities, and one call per shard df[1..split],
\* df[split+1..]; a row slice keeps the column's dtype
MergeShards ==
  /\ pc = "call"
  /\ pc' = "done"
  /\ ApplyMerge
  /\ LET d1 == SubSeq(df, 1, split)
         d2 == SubSeq(df, split + 1, Len(df))
     IN shard_result' = ShardCombine(MergeResult(d1, cities_df, in_columns, df_float, cities_float),
                                     MergeResult(d2, cities_df, in_columns, df_float, cities_float),
                                     d1, d2)
  /\ UNCHANGED <<split, normVars, pipeVars>>

SpecShard == InitShard /\ [][MergeShards]_vars

\* ---------------------------------------------------------------- loading
InitPipeline ==
  /\ facility_data \in [Datasets -> PipeDfPool]
  /\ facility_cols \in [Datasets -> PipeColsPool]
  /\ pipe_cities \in PipeCitiesPool
  /\ merged_datasets = {}
  /\ region_col = [x \in Datasets |-> FALSE]
  /\ pc = "load"
  /\ LoadIdle /\ ViewIdle /\ UiIdle /\ CalcIdle
  /\ MergeIdle /\ ShardIdle /\ NormIdle

\* ParksVisualizationApp.load_all_data: load_parks_data, load_cemetery_data,
\* load_camping_data, each with the shared cities table
LoadAllData ==
  /\ pc = "load"
  /\ pc' = "done"
  /\ merged_datasets' =
       {ds \in Datasets : MergesDataset(ds, facility_data[ds], facility_cols[ds], pipe_cities)}
  /\ region_col' =
       [ds \in Datasets |->
          MergesDataset(ds, facility_data[ds], facility_cols[ds], pipe_cities) /\
          MergeResult(ProcessedCities(facility_data[ds], facility_cols[ds]), pipe_cities, {"city"},
                      CsvFloat(facility_data[ds]), FALSE).outcome = "enhanced"]
  /\ UNCHANGED <<facility_data, facility_cols, pipe_cities, loadVars, viewVars, uiVars, calcVars,
                 mergeVars, shardVars, normVars>>

SpecPipeline == InitPipeline /\ [][LoadAllData]_vars

\* ---------------------------------------------------------------- parks / cemetery loading
\* mutant: the loop over possible_city_columns without the break, so the last
\* present column wins
RECURSIVE LastPresent(_, _, _)
LastPresent(list, cols, k) ==
  IF k = 0 THEN "None" ELSE IF list[k] \in cols THEN list[k] ELSE LastPresent(list, cols, k - 1)

\* for col in possible_city_columns: if col in df.columns: city_column = col; break
RECURSIVE FirstPresent(_, _, _)
FirstPresent(list, cols, k) ==
  IF k > Len(list) THEN "None" ELSE IF list[k] \in cols THEN list[k] ELSE FirstPresent(list, cols, k + 1)

\* mutant: the last present column
SelectCityColumnLast(cols) == LastPresent(PossibleCityColumns, cols, Len(PossibleCityColumns))

SelectCityColumn(cols) == FirstPresent(PossibleCityColumns, cols, 1)

\* the rows at the indices idx, in order (gdf[gdf.geometry.is_valid])
KeepRows(d, idx) ==
  LET pairs == [i \in DOMAIN d |-> <<i, d[i]>>]
      kept == SelectSeq(pairs, LAMBDA p : p[1] \in idx)
  IN [j \in DOMAIN kept |-> kept[j][2]]

MaxLoadFacilities == 2
LoadCityPool == {<<"a", "b">>, NaN}
LoadRowPool == [city : LoadCityPool, geom : BOOLEAN]
LoadColumnChoices == {"city", "name", "Stadt", "geometry"}

\* a parks or cemetery CSV: its rows, its columns, the rows of the processed
\* df whose geometry is valid, and the cities table
InitLoad ==
  /\ load_ds \in {"parks", "cemetery"}
  /\ load_cols \in SUBSET LoadColumnChoices
  /\ load_rows \in SeqsUpTo(LoadRowPool, MaxLoadFacilities)
  /\ load_gdf_idx \in (IF "geometry" \in load_cols
                       THEN SUBSET DOMAIN ProcessedCities(load_rows, load_cols) ELSE {{}})
  /\ load_cities \in PipeCitiesPool
  /\ LoadOutputsInit
  /\ facility_data = [x \in Datasets |-> <<>>]
  /\ facility_cols = [x \in Datasets |-> {}]
  /\ pipe_cities = <<>>
  /\ merged_datasets = {}
  /\ region_col = [x \in Datasets |-> FALSE]
  /\ pc = "loadone"
  /\ ViewIdle /\ UiIdle /\ CalcIdle
  /\ MergeIdle /\ ShardIdle /\ NormIdle

\* DataLoader.load_parks_data / load_cemetery_data (the second, effective
\* definitions): an empty CSV returns at once; otherwise the geometries are
\* processed, and the df and the GeoDataFrame built from it are merged with
\* the same city column when the cities table is non-empty and a city
\* column is found; a GeoDataFrame without a geometry column is empty.
LoadFacilityData ==
  /\ pc = "loadone"
  /\ pc' = "done"
  /\ LET sel == SelectCityColumn(load_cols)
         d == ProcessedCities(load_rows, load_cols)
         gdf == KeepRows(d, load_gdf_idx)
         fl == CsvFloat(load_rows)
         go == Len(load_rows) > 0 /\ Len(load_cities) > 0 /\ sel # "None"
     IN /\ used_col_df' = IF go THEN sel ELSE "unused"
        /\ used_col_gdf' = IF go /\ Len(gdf) > 0 THEN sel ELSE "unused"
        /\ df_region' = (go /\ MergeResult(d, load_cities, {"city"}, fl, FALSE).outcome = "enhanced")
        /\ gdf_region' = (go /\ Len(gdf) > 0 /\
                          MergeResult(gdf, load_cities, {"city"}, fl, FALSE).outcome = "enhanced")
  /\ UNCHANGED <<load_ds, load_cols, load_rows, load_gdf_idx, load_cities,
                 facility_data, facility_cols, pipe_cities, merged_datasets, region_col,
                 viewVars, uiVars, calcVars, mergeVars, shardVars, normVars>>

SpecLoad == InitLoad /\ [][LoadFacilityData]_vars

\* ---------------------------------------------------------------- per-region view
\* an enriched facility row: its region (NA when unmatched) and its area
\* (filtered data lies inside the area range, so the area is a number)

\* mutant: rows with a missing region are kept as well
RegionMatchesOrNa(v, r) == v = r \/ v = NA

\* gdf['bundesland'] == bundesland_name, element-wise; NaN equals nothing
RegionMatches(v, r) == v = r

\* ParksVisualization._filter_data_by_bundesland(gdf, r) as the set of the
\* kept row positions: empty for an empty gdf or one without a 'bundesland'
\* column, else the rows whose region equals r
FilterByBundeslandRows(d, hascol, r) ==
  IF Len(d) = 0 \/ ~hascol THEN {}
  ELSE {i \in DOMAIN d : RegionMatches(d[i].region, r)}

MaxFilterRows == 3
ViewRegionPool == {"X", "Y", NA}
FilterNamePool == {"X", "Y", "Z"}
ViewRows(n, areas) == SeqsUpTo([region : ViewRegionPool, area : areas], n)

InitFilter ==
  /\ view_data \in {[x \in Datasets |-> IF x = "parks" THEN d ELSE <<>>] :
                     d \in ViewRows(MaxFilterRows, {1})}
  /\ view_hascol \in {[x \in Datasets |-> IF x = "parks" THEN b ELSE FALSE] : b \in BOOLEAN}
  /\ view_r1 \in FilterNamePool
  /\ view_r2 \in FilterNamePool \ {view_r1}
  /\ ViewOutputsInit
  /\ pc = "filter"
  /\ MergeIdle /\ ShardIdle /\ NormIdle /\ LoadIdle /\ UiIdle /\ CalcIdle
  /\ facility_data = [x \in Datasets |-> <<>>]
  /\ facility_cols = [x \in Datasets |-> {}]
  /\ pipe_cities = <<>>
  /\ merged_datasets = {}
  /\ region_col = [x \in Datasets |-> FALSE]

\* filtering one enriched dataset by two region names
FilterByBundesland ==
  /\ pc = "filter"
  /\ pc' = "done"
  /\ filt_out1' = FilterByBundeslandRows(view_data["parks"], view_hascol["parks"], view_r1)
  /\ filt_out2' = FilterByBundeslandRows(view_data["parks"], view_hascol["parks"], view_r2)
  /\ UNCHANGED <<view_data, view_hascol, view_r1, view_r2, view_stats,
                 facility_data, facility_cols, pipe_cities, merged_datasets, region_col,
                 loadVars, uiVars, calcVars, mergeVars, shardVars, normVars>>

SpecFilter == InitFilter /\ [][FilterByBundesland]_vars

\* mutant: every row of the dataset counted for the region
RegionRowsAll(d, r) == DOMAIN d

\* df[df['bundesland'] == bundesland_name]
RegionRows(d, r) == {i \in DOMAIN d : RegionMatches(d[i].region, r)}

RECURSIVE SumAreaOver(_, _)
SumAreaOver(d, idx) ==
  IF idx = {} THEN 0
  ELSE LET i == CHOOSE i \in idx : TRUE IN d[i].area + SumAreaOver(d, idx \ {i})

\* calculate_bundesland_stats(processed_data, r): for parks, cemetery and
\* camping in turn, a non-empty dataset with a 'bundesland' column adds its
\* rows of region r to total_locations and total_area and sets its
\* <name>_count.  (total_workers and total_bikes, sums of the Arbeiter and
\* Marktpotenzial columns, are left out.)
CalculateBundeslandStatsOf(data, hascol, r) ==
  LET sel(ds) == IF Len(data[ds]) > 0 /\ hascol[ds] THEN RegionRows(data[ds], r) ELSE {}
      cnt(ds) == Cardinality(sel(ds))
  IN [total_locations |-> cnt("parks") + cnt("cemetery") + cnt("camping"),
      total_area |-> SumAreaOver(data["parks"], sel("parks")) +
                     SumAreaOver(data["cemetery"], sel("cemetery")) +
                     SumAreaOver(data["camping"], sel("camping")),
      parks_count |-> cnt("parks"), cemetery_count |-> cnt("cemetery"),
      camping_count |-> cnt("camping")]

\* the parks table holds up to MaxStatsRows rows, the others up to
\* MaxStatsOtherRows; a row of region X with area 1 or 2, or an unmatched row
\* with area 3
MaxStatsRows == 2
MaxStatsOtherRows == 1
StatsRowPool == {[region |-> "X", area |-> 1], [region |-> "X", area |-> 2],
                 [region |-> NA, area |-> 3]}

InitStats ==
  /\ view_data \in {[x \in Datasets |-> IF x = "parks" THEN p ELSE IF x = "cemetery" THEN q ELSE k] :
                     p \in SeqsUpTo(StatsRowPool, MaxStatsRows),
                     q \in SeqsUpTo(StatsRowPool, MaxStatsOtherRows),
                     k \in SeqsUpTo(StatsRowPool, MaxStatsOtherRows)}
  /\ view_hascol \in [Datasets -> BOOLEAN]
  /\ view_r1 \in {"X", "Y"}
  /\ view_r2 = "Y"
  /\ ViewOutputsInit
  /\ pc = "stats"
  /\ MergeIdle /\ ShardIdle /\ NormIdle /\ LoadIdle /\ UiIdle /\ CalcIdle
  /\ facility_data = [x \in Datasets |-> <<>>]
  /\ facility_cols = [x \in Datasets |-> {}]
  /\ pipe_cities = <<>>
  /\ merged_datasets = {}
  /\ region_col = [x \in Datasets |-> FALSE]

CalculateBundeslandStats ==
  /\ pc = "stats"
  /\ pc' = "done"
  /\ view_stats' = CalculateBundeslandStatsOf(view_data, view_hascol, view_r1)
  /\ UNCHANGED <<view_data, view_hascol, view_r1, view_r2, filt_out1, filt_out2,
                 facility_data, facility_cols, pipe_cities, merged_datasets, region_col,
                 loadVars, uiVars, calcVars, mergeVars, shardVars, normVars>>

SpecStats == InitStats /\ [][CalculateBundeslandStats]_vars

\* ---------------------------------------------------------------- dashboard range widgets
\* areas in tenths of a hectare (the widgets' step is 0.1); max_area is taken
\* at least 20 ha so that the initial range (1.0, 20.0) is a valid value
UiValues == {0, 50, 200}
\* the widgets' max_value, max_area
MaxArea == 200
MaxUiEvents == 3
PipeStateIdle ==
  /\ facility_data = [x \in Datasets |-> <<>>]
  /\ facility_cols = [x \in Datasets |-> {}]
  /\ pipe_cities = <<>>
  /\ merged_datasets = {}
  /\ region_col = [x \in Datasets |-> FALSE]

\* init_session_state(), then the first run: the slider shows and returns
\* (slider_min, slider_max) as area_range, and min_groesse = (slider_min,
\* slider_max)
InitUi ==
  /\ slider_min = 10 /\ slider_max = 200
  /\ manual_min = 10 /\ manual_max = 200
  /\ slider_range = <<10, 200>> /\ area_range = <<10, 200>>
  /\ min_groesse = <<10, 200>>
  /\ last_set = <<10, 200>> /\ last_event = "none" /\ ui_events = 0
  /\ pc = "ui"
  /\ CalcIdle /\ ViewIdle /\ LoadIdle /\ PipeStateIdle
  /\ MergeIdle /\ ShardIdle /\ NormIdle

uiFrame == <<calcVars, viewVars, loadVars, facility_data, facility_cols, pipe_cities,
             merged_datasets, region_col, mergeVars, shardVars, normVars, pc>>

\* The keyed slider's value after a run whose value argument went from old to
\* (lo, hi), its current value being cur: an unchanged argument keeps cur;
\* a changed one, depending on the Streamlit version, keeps cur or takes the
\* new argument, and a reversed argument (lo > hi) can also come back swapped
\* or reset to the full range (0, max_area).
SliderValueAfter(cur, old, lo, hi) ==
  IF <<lo, hi>> = old THEN {cur}
  ELSE IF lo <= hi THEN {cur, <<lo, hi>>}
  ELSE {cur, <<lo, hi>>, <<hi, lo>>, <<0, MaxArea>>}

\* the user moves the slider (key 'slider_range'): Streamlit stores the new
\* value under st.session_state.slider_range, runs update_manual_from_slider
\* (manual_* := slider_*), then reruns main, where the slider returns the new
\* value as area_range (the range process_data_with_params filters with) and
\* min_groesse is set from slider_min / slider_max
SliderChange ==
  /\ pc = "ui" /\ ui_events < MaxUiEvents
  /\ \E lo, hi \in UiValues :
       /\ lo <= hi /\ <<lo, hi>> # slider_range
       /\ slider_range' = <<lo, hi>>
       /\ area_range' = <<lo, hi>>
       /\ manual_min' = slider_min /\ manual_max' = slider_max
       /\ min_groesse' = <<slider_min, slider_max>>
       /\ last_set' = <<lo, hi>>
  /\ last_event' = "slider"
  /\ ui_events' = ui_events + 1
  /\ UNCHANGED <<slider_min, slider_max, uiFrame>>

\* the user edits a number input (key 'manual_min' or 'manual_max'): the new
\* value is stored under that key, update_slider_from_manual runs
\* (slider_* := manual_*), and main reruns; the slider's value argument is
\* now (slider_min, slider_max), and its value (SliderValueAfter) is
\* returned as area_range.
ManualChange ==
  /\ pc = "ui" /\ ui_events < MaxUiEvents
  /\ \E which \in {"min", "max"}, v \in UiValues :
       LET nmin == IF which = "min" THEN v ELSE manual_min
           nmax == IF which = "max" THEN v ELSE manual_max
       IN /\ (IF which = "min" THEN v # manual_min ELSE v # manual_max)
          /\ manual_min' = nmin /\ manual_max' = nmax
          /\ slider_min' = nmin /\ slider_max' = nmax
          /\ slider_range' \in SliderValueAfter(slider_range, <<slider_min, slider_max>>, nmin, nmax)
          /\ area_range' = slider_range'
          /\ min_groesse' = <<nmin, nmax>>
          /\ last_set' = <<nmin, nmax>>
  /\ last_event' = "manual"
  /\ ui_events' = ui_events + 1
  /\ UNCHANGED uiFrame

\* a slider event and a number-input event that arrive before the rerun for
\* the first one starts are merged into one rerun: Streamlit stores both
\* widget values, then runs both callbacks in either order, then main.
\* update_manual_from_slider copies the current slider_min / slider_max over
\* the number inputs; update_slider_from_manual copies the number inputs over
\* slider_min / slider_max.  The user's value from the later event is last_set.
CoalescedChange ==
  /\ pc = "ui" /\ ui_events + 2 <= MaxUiEvents
  /\ \E lo, hi \in UiValues, which \in {"min", "max"}, v \in UiValues,
        later \in {"slider", "manual"}, cbfirst \in {"slider", "manual"} :
       LET nmin == IF which = "min" THEN v ELSE manual_min
           nmax == IF which = "max" THEN v ELSE manual_max
           \* slider_min / slider_max after both callbacks
           smin == IF cbfirst = "slider" THEN slider_min ELSE nmin
           smax == IF cbfirst = "slider" THEN slider_max ELSE nmax
       IN /\ lo <= hi /\ <<lo, hi>> # slider_range
          /\ (IF which = "min" THEN v # manual_min ELSE v # manual_max)
          /\ slider_min' = smin /\ slider_max' = smax
          /\ manual_min' = smin /\ manual_max' = smax
          /\ slider_range' \in SliderValueAfter(<<lo, hi>>, <<slider_min, slider_max>>, smin, smax)
          /\ area_range' = slider_range'
          /\ min_groesse' = <<smin, smax>>
          /\ last_set' = IF later = "slider" THEN <<lo, hi>> ELSE <<nmin, nmax>>
          /\ last_event' = later
  /\ ui_events' = ui_events + 2
  /\ UNCHANGED uiFrame

NextUi == SliderChange \/ ManualChange \/ CoalescedChange

SpecUi == InitUi /\ [][NextUi]_vars

\* ---------------------------------------------------------------- workers and bikes
\* math.ceil(n / d) for integers, d > 0
CeilDiv(n, d) == IF n % d = 0 THEN n \div d ELSE n \div d + 1

\* mutant: the guard "if area_ha < 0"
ArbeiterOptionsLt(a, m, std, tage) ==
  IF a < 0 THEN {0}
  ELSE LET n == a * m * 100
           d == 60 * std * tage
       IN IF n % d = 0 THEN {Max(1, n \div d), Max(1, n \div d + 1)}
          ELSE {Max(1, CeilDiv(n, d))}

\* berechne_arbeiter(area_ha, min_pro_m2, std_pro_tag, tage_pro_jahr) with
\* area_ha = a / 10 and min_pro_m2 = m / 10, as the set of results the
\* double arithmetic can give.  The rational value of
\* area_m2 * min_pro_m2 / 60 / std / tage is n / d = a * m * 100 / (60 * std * tage).
\* Each of the five float operations rounds; the accumulated relative error
\* (a few ulps) is far below 1 / d, so it can only move math.ceil when n / d
\* is an integer k: the double then lands on k, just below it (ceil k) or just
\* above it (ceil k + 1, e.g. 0.6 ha, 1.1, 1 h, 110 days -> 1.0000000000000002).
ArbeiterOptions(a, m, std, tage) ==
  IF a <= 0 THEN {0}
  ELSE LET n == a * m * 100
           d == 60 * std * tage
       IN IF n % d = 0 THEN {Max(1, n \div d), Max(1, n \div d + 1)}
          ELSE {Max(1, CeilDiv(n, d))}

\* areas (tenths of a hectare) and the sliders' parameter values
AreaPool == {-10, 0, 1, 10, 100, 1000}
MinProM2Pool == {5, 11, 13, 50}
StdProTagPool == {1, 5, 10}
TageProJahrPool == {100, 110, 220, 300}

InitArbeiter ==
  /\ calc_in \in {r \in [a1 : AreaPool, a2 : AreaPool, m : MinProM2Pool, std : StdProTagPool,
                          tage : TageProJahrPool] : r.a1 <= r.a2}
  /\ calc_out = "none"
  /\ pc = "arbeiter"
  /\ UiIdle /\ ViewIdle /\ LoadIdle /\ PipeStateIdle
  /\ MergeIdle /\ ShardIdle /\ NormIdle

\* berechne_arbeiter applied to two areas with the same parameters; the
\* function is deterministic, so equal inputs give equal results
ComputeArbeiter ==
  /\ pc = "arbeiter"
  /\ pc' = "arbeiter_done"
  /\ \E w1 \in ArbeiterOptions(calc_in.a1, calc_in.m, calc_in.std, calc_in.tage),
       w2 \in ArbeiterOptions(calc_in.a2, calc_in.m, calc_in.std, calc_in.tage) :
       /\ calc_in.a1 = calc_in.a2 => w1 = w2
       /\ calc_out' = [w1 |-> w1, w2 |-> w2]
  /\ UNCHANGED <<calc_in, uiVars, viewVars, loadVars, facility_data, facility_cols, pipe_cities,
                 merged_datasets, region_col, mergeVars, shardVars, normVars>>

SpecArbeiter == InitArbeiter /\ [][ComputeArbeiter]_vars

\* round(n / d) for integers, d > 0: the nearest integer; at an exact tie of
\* the rational value the float division and round()'s half-even rule can
\* land on either neighbour
RoundOptions(n, d) ==
  LET fl == n \div d
      rem == n - fl * d
  IN IF 2 * rem < d THEN {fl} ELSE IF 2 * rem > d THEN {fl + 1} ELSE {fl, fl + 1}

Methods == {"Aufrunden", "Abrunden", "Gleitkomma", "Andere"}

\* fahrraeder = arbeiter / arbeiter_pro_rad in doubles, with arbeiter_pro_rad
\* = r / 10: the sign of its offset from the rational value 10 * w / r.
\* r / 10 is exact in binary when r % 5 = 0, and the division is then
\* correctly rounded, so an integer quotient is hit exactly.  Otherwise an
\* integer quotient can come out just below or just above (33 / 1.1 =
\* 29.999999999999996, 21 / 0.7 = 30.000000000000004); a non-integer one is
\* too far from every integer for the error to cross it.
FloatErrors(w, r) ==
  IF (10 * w) % r = 0 /\ r % 5 # 0 THEN {-1, 0, 1} ELSE {0}

\* mutant: an unknown label falls through to the float result
FahrradOptionsNoDefault(w, r, meth, e) ==
  IF w = 0 THEN {0}
  ELSE CASE meth = "Aufrunden" -> {(CeilDiv(10 * w, r) + (IF e = 1 THEN 1 ELSE 0)) * 100}
         [] meth = "Abrunden" -> {((10 * w) \div r - (IF e = -1 THEN 1 ELSE 0)) * 100}
         [] OTHER -> RoundOptions(1000 * w, r)

\* berechne_fahrradanzahl(arbeiter, arbeiter_pro_rad, methode) with
\* arbeiter_pro_rad = r / 10 and the float offset sign e, as the possible
\* results in hundredths: ceil, floor, round(., 2), else 0.  round(., 2) of a
\* double within a few ulps of an integer gives that integer.
FahrradOptions(w, r, meth, e) ==
  IF w = 0 THEN {0}
  ELSE CASE meth = "Aufrunden" -> {(CeilDiv(10 * w, r) + (IF e = 1 THEN 1 ELSE 0)) * 100}
         [] meth = "Abrunden" -> {((10 * w) \div r - (IF e = -1 THEN 1 ELSE 0)) * 100}
         [] meth = "Gleitkomma" -> RoundOptions(1000 * w, r)
         [] OTHER -> {0}

WorkerPool == {-1, 0, 1, 2, 3, 5, 7, 11, 21, 33, 166}
ArbeiterProRadPool == {5, 7, 11, 13, 16, 20, 35, 50}

InitBikes ==
  /\ calc_in \in [w : WorkerPool, r : ArbeiterProRadPool]
  /\ calc_out = "none"
  /\ pc = "bikes"
  /\ UiIdle /\ ViewIdle /\ LoadIdle /\ PipeStateIdle
  /\ MergeIdle /\ ShardIdle /\ NormIdle

\* berechne_fahrradanzahl called with each method label for one input
ComputeFahrradanzahl ==
  /\ pc = "bikes"
  /\ pc' = "bikes_done"
  /\ \E e \in FloatErrors(calc_in.w, calc_in.r) :
     \E res \in [Methods -> UNION {FahrradOptions(calc_in.w, calc_in.r, x, e) : x \in Methods}] :
       /\ \A meth \in Methods : res[meth] \in FahrradOptions(calc_in.w, calc_in.r, meth, e)
       /\ calc_out' = res
  /\ UNCHANGED <<calc_in, uiVars, viewVars, loadVars, facility_data, facility_cols, pipe_cities,
                 merged_datasets, region_col, mergeVars, shardVars, normVars>>

SpecBikes == InitBikes /\ [][ComputeFahrradanzahl]_vars

\* ================================================================ properties
Done == pc = "done"
NC(i) == Clean(df[i])
Rows == {cities_df[j] : j \in DOMAIN cities_df}
CandSet == {Clean(r.Stadt) : r \in Rows} \ {NaN}
\* Bundesland of the last reference row whose cleaned name is k
LastRegion(k) ==
  LET js == {j \in DOMAIN cities_df : Clean(cities_df[j].Stadt) = k}
  IN cities_df[CHOOSE j \in js : \A j2 \in js : j2 <= j].Bundesland
\* the same, over the rows that have both a name and a region
WellFormed(r) == r.Stadt # NaN /\ r.Bundesland # NA
LastWellFormedRegion(k) ==
  LET js == {j \in DOMAIN cities_df : WellFormed(cities_df[j]) /\ Clean(cities_df[j].Stadt) = k}
  IN cities_df[CHOOSE j \in js : \A j2 \in js : j2 <= j].Bundesland
\* the similarity measure as the specification states it
SimScore(a, b) ==
  [num |-> Cardinality({a[x] : x \in DOMAIN a} \cap {b[y] : y \in DOMAIN b}),
   den |-> IF Cardinality({a[x] : x \in DOMAIN a}) >= Cardinality({b[y] : y \in DOMAIN b})
           THEN Cardinality({a[x] : x \in DOMAIN a}) ELSE Cardinality({b[y] : y \in DOMAIN b})]
NoExactHit(i) == ~(\E r \in Rows : Clean(r.Stadt) = NC(i)) \/ LastRegion(NC(i)) = NA

\* C1: a facility whose cleaned city equals the cleaned name of a reference
\* row (with a region) gets the region the mapping holds for that name, by the
\* exact pass, and the fuzzy pass never replaces it.
C1_ExactPriority ==
  (Done /\ has_city_column) =>
    \A i \in DOMAIN df :
      (\E r \in Rows : WellFormed(r) /\ Clean(r.Stadt) = NC(i)) =>
        /\ outcome = "enhanced"
        /\ bundesland[i] = LastWellFormedRegion(NC(i))
        /\ method[i] = "exact"

\* C2: a facility resolved to a name (exact or fuzzy) gets the Bundesland of
\* the last reference row with that cleaned name.
C2_LastWriteWins ==
  (Done /\ outcome = "enhanced") =>
    \A i \in DOMAIN df : method[i] \in {"exact", "fuzzy"} => bundesland[i] = LastRegion(matched[i])

C2_Witness ==
  /\ Done /\ outcome = "enhanced"
  /\ \E i \in DOMAIN df : method[i] \in {"exact", "fuzzy"} /\
        \E j1, j2 \in DOMAIN cities_df :
          /\ j1 < j2
          /\ Clean(cities_df[j1].Stadt) = matched[i]
          /\ Clean(cities_df[j2].Stadt) = matched[i]
          /\ cities_df[j1].Bundesland # cities_df[j2].Bundesland

\* C3: a fuzzy assignment has a score > 1/2; a facility without an exact hit
\* whose best score over all candidates is <= 1/2 gets no Bundesland.
C3_FuzzyThreshold ==
  (Done /\ outcome = "enhanced") =>
    \A i \in DOMAIN df :
      /\ method[i] = "fuzzy" => 2 * score[i].num > score[i].den
      /\ (bundesland[i] # NA /\ method[i] # "exact") => method[i] = "fuzzy"
      /\ (NC(i) # NaN /\ NoExactHit(i) /\
          \A c \in CandSet : 2 * SimScore(NC(i), c).num <= SimScore(NC(i), c).den)
           => bundesland[i] = NA

C3_Witness ==
  /\ Done /\ outcome = "enhanced"
  /\ \E i \in DOMAIN df : method[i] = "fuzzy"
  /\ \E i \in DOMAIN df : NC(i) # NaN /\ bundesland[i] = NA /\
        \E c \in CandSet : 2 * SimScore(NC(i), c).num = SimScore(NC(i), c).den

\* C4: a fuzzy match is a non-missing cleaned reference name, its score is
\* |set(a) & set(b)| / max(|set(a)|, |set(b)|) and no candidate scores higher.
C4_FuzzyIsMaximum ==
  (Done /\ outcome = "enhanced") =>
    \A i \in DOMAIN df : method[i] = "fuzzy" =>
      /\ matched[i] \in CandSet
      /\ score[i] = SimScore(NC(i), matched[i])
      /\ \A c \in CandSet :
           SimScore(NC(i), c).num * score[i].den <= score[i].num * SimScore(NC(i), c).den

C4_Witness ==
  /\ Done /\ outcome = "enhanced"
  /\ \E i \in DOMAIN df : method[i] = "fuzzy" /\
        \E c \in CandSet : c # matched[i] /\ 2 * SimScore(NC(i), c).num > SimScore(NC(i), c).den

\* C5 (as stated): "Muenchen" is fuzzy matched to München with score 5/7 and
\* gets Bayern.
C5_MuenchenScenarioAsStated ==
  Done => \A i \in DOMAIN df : df[i] = Muenchen =>
    /\ outcome = "enhanced" /\ method[i] = "fuzzy" /\ matched[i] = Clean(Muenchen2)
    /\ score[i].num * 7 = score[i].den * 5 /\ bundesland[i] = "Bayern"

\* C5 (amended): "Muenchen" is fuzzy matched to München with score 5/6 (five
\* shared characters, both character sets of size 6) and gets Bayern.
C5_MuenchenScenario ==
  Done => \A i \in DOMAIN df : df[i] = Muenchen =>
    /\ outcome = "enhanced" /\ method[i] = "fuzzy" /\ matched[i] = Clean(Muenchen2)
    /\ score[i].num * 6 = score[i].den * 5 /\ bundesland[i] = "Bayern"

C5_Witness == Done /\ \E i \in DOMAIN df : df[i] = Muenchen /\ bundesland[i] = "Bayern"

\* C6 (as stated): "Nowhereville" stays unmatched and is in the unmatched sample.
C6_NowherevilleAsStated ==
  Done => \A i \in DOMAIN df : df[i] = Nowhereville =>
    /\ outcome = "enhanced" /\ bundesland[i] = NA
    /\ Nowhereville \in {stats.sample[j] : j \in DOMAIN stats.sample}

\* C6 (amended): "Nowhereville" is fuzzy matched to berlin with score 5/9 and
\* gets Berlin, so it is not in the unmatched sample.
C6_NowherevilleScenario ==
  Done => \A i \in DOMAIN df : df[i] = Nowhereville =>
    /\ outcome = "enhanced" /\ method[i] = "fuzzy" /\ matched[i] = Clean(Berlin)
    /\ score[i].num * 9 = score[i].den * 5 /\ bundesland[i] = "Berlin"
    /\ Nowhereville \notin {stats.sample[j] : j \in DOMAIN stats.sample}

C6_Witness == Done /\ \E i \in DOMAIN df : df[i] = Nowhereville /\ bundesland[i] = "Berlin"

\* C7: when some facility has a missing or empty city (and the reference
\* table has usable names), the call returns the enriched table, and each
\* such facility is left unmatched without a score.
NullOrEmpty(i) == df[i] = NaN \/ NC(i) = <<>>
C7_NullCityUnmatched ==
  (Done /\ has_city_column /\ Len(cities_df) > 0 /\ ~cities_float /\
   \E i \in DOMAIN df : NullOrEmpty(i)) =>
    /\ outcome = "enhanced"
    /\ \A i \in DOMAIN df : NullOrEmpty(i) =>
         bundesland[i] = NA /\ method[i] = "none" /\ score[i] = Zero

\* C8: a missing city column makes the call fail with a SchemaError.
C8_SchemaError ==
  (Done /\ ~has_city_column /\ Len(df) > 0 /\ Len(cities_df) > 0) => outcome = "SchemaError"

\* C9: an empty facility table or an empty reference table gives the input back
\* unchanged, without a bundesland column, and no statistics.
C9_EmptyNoOp ==
  (Done /\ (Len(df) = 0 \/ Len(cities_df) = 0)) =>
    outcome = "input" /\ bundesland = <<>> /\ stats = NoStats

C9_Witness == Done /\ Len(df) > 0 /\ Len(cities_df) = 0 /\ has_city_column /\ ~AllMissing(df)

\* C11 (as stated): the sample is the first 5 raw city names of the unmatched
\* facilities in order, one entry per unmatched facility.
UnmatchedRawSeq ==
  LET pairs == [i \in DOMAIN df |-> <<df[i], bundesland[i]>>]
      sel == SelectSeq(pairs, LAMBDA p : p[2] = NA)
  IN [j \in DOMAIN sel |-> sel[j][1]]
C11_UnmatchedSampleAsStated ==
  (Done /\ outcome = "enhanced") => stats.sample = FirstN(UnmatchedRawSeq, 5)

\* C11 (amended): the sample holds the distinct raw city values of the
\* unmatched facilities (the missing value included), in order of first
\* appearance, at most 5 of them; a repeated name appears once.
DistinctUnmatched == {df[i] : i \in {i2 \in DOMAIN df : bundesland[i2] = NA}}
FirstIdx(x) == CHOOSE i \in DOMAIN df : df[i] = x /\ \A i2 \in 1..(i - 1) : df[i2] # x
C11_UnmatchedSample ==
  (Done /\ outcome = "enhanced") =>
    LET smp == stats.sample
        inS == {smp[j] : j \in DOMAIN smp}
    IN /\ Len(smp) = IF Cardinality(DistinctUnmatched) < 5 THEN Cardinality(DistinctUnmatched) ELSE 5
       /\ inS \subseteq DistinctUnmatched
       /\ \A j, k \in DOMAIN smp : j < k => FirstIdx(smp[j]) < FirstIdx(smp[k])
       /\ \A x \in DistinctUnmatched \ inS : \A j \in DOMAIN smp : FirstIdx(smp[j]) < FirstIdx(x)

C11_Witness ==
  /\ Done /\ outcome = "enhanced" /\ Len(stats.sample) = 5
  /\ \E i \in DOMAIN df : bundesland[i] # NA /\
        \E i2 \in DOMAIN df : i < i2 /\ bundesland[i2] = NA /\ df[i2] # df[i] /\
          df[i2] \in {stats.sample[j] : j \in DOMAIN stats.sample}

\* C10: every call with facilities yields statistics over all its rows, and
\* the exact matches, the fuzzy matches (the rows the fuzzy loop matched to a
\* name) and the unmatched rows (total_rows - matched_rows) add up to it.
C10_Conservation ==
  (Done /\ Len(df) > 0) =>
    LET ex == Cardinality({i \in DOMAIN df : method[i] = "exact"})
        fz == Cardinality({i \in DOMAIN df : method[i] = "fuzzy"})
        un == stats.total_rows - stats.matched_rows
    IN stats.total_rows = Len(df) /\ ex + fz + un = stats.total_rows

\* C12: a fuzzy match is the first reference row, in table order, among the
\* best-scoring names: every row before the first row carrying the matched
\* name scores strictly less.
FirstRowOf(k) ==
  CHOOSE j \in DOMAIN cities_df :
    Clean(cities_df[j].Stadt) = k /\ \A j2 \in 1..(j - 1) : Clean(cities_df[j2].Stadt) # k
C12_TieInReferenceOrder ==
  (Done /\ outcome = "enhanced") =>
    \A i \in DOMAIN df : method[i] = "fuzzy" =>
      \A j \in 1..(FirstRowOf(matched[i]) - 1) :
        cities_df[j].Stadt # NaN =>
          SimScore(NC(i), Clean(cities_df[j].Stadt)).num * score[i].den <
            score[i].num * SimScore(NC(i), Clean(cities_df[j].Stadt)).den

C12_Witness ==
  /\ Done /\ outcome = "enhanced"
  /\ \E i \in DOMAIN df : method[i] = "fuzzy" /\
       \E j \in DOMAIN cities_df :
         /\ j > FirstRowOf(matched[i])
         /\ cities_df[j].Stadt # NaN /\ Clean(cities_df[j].Stadt) # matched[i]
         /\ SimScore(NC(i), Clean(cities_df[j].Stadt)).num * score[i].den =
              score[i].num * SimScore(NC(i), Clean(cities_df[j].Stadt)).den

\* C13: missing cities and cities that match nothing never abort the call:
\* the enriched table comes back and every facility with a valid exact
\* reference still gets a region.
C13_NoAbortOnDataQuality ==
  (Done /\ has_city_column /\ Len(df) > 0 /\ Len(cities_df) > 0) =>
    /\ outcome = "enhanced"
    /\ \A i \in DOMAIN df :
         (NC(i) # NaN /\ \E r \in Rows : WellFormed(r) /\ Clean(r.Stadt) = NC(i)) =>
           bundesland[i] # NA

\* C14: reference rows without a name or a region are skipped: a fuzzy match
\* never yields a missing region, a missing city never matches a nameless
\* row, and a malformed row never overwrites a valid one.
C14_MalformedRowsSkipped ==
  (Done /\ outcome = "enhanced") =>
    \A i \in DOMAIN df :
      /\ method[i] = "fuzzy" => bundesland[i] # NA
      /\ df[i] = NaN => bundesland[i] = NA
      /\ (\E r \in Rows : WellFormed(r) /\ Clean(r.Stadt) = NC(i)) =>
           bundesland[i] = LastWellFormedRegion(NC(i))

\* C15: strip-then-lower is idempotent.
C15_NormalizeIdempotent == pc = "done" => norm_twice = norm_once

C15_Witness ==
  pc = "done" /\ norm_once # <<>> /\ Len(norm_once) < Len(norm_in) /\
  \E k \in DOMAIN norm_in : norm_in[k] \in DOMAIN LowerMap

\* C16: the result has the input's rows and columns, with only the
\* 'bundesland' column added or set.
C16_OutputShape ==
  Done =>
    /\ (in_columns \ {"bundesland"}) \subseteq out_columns
    /\ outcome = "enhanced" =>
         Len(bundesland) = Len(df) /\ out_columns = in_columns \cup {"bundesland"}

\* C17 (as stated): the call returns a new table and writes nothing into the
\* caller's facility table or reference table.
C17_NoAliasingAsStated ==
  Done => /\ ~returned_alias
          /\ caller_columns = in_columns /\ ~caller_fresh
          /\ caller_cities_columns = CitiesColumns

\* C17 (amended): the caller's tables are never written to; the call returns
\* a new table when it enriches and the caller's df object itself otherwise.
C17_NoAliasing ==
  Done => /\ caller_columns = in_columns /\ ~caller_fresh
          /\ caller_cities_columns = CitiesColumns
          /\ returned_alias <=> outcome = "input"

C17_Witness ==
  Done /\ outcome = "enhanced" /\ out_columns # in_columns /\ "bundesland" \in in_columns

\* C18: resolving df[1..split] and df[split+1..] separately and merging
\* (concatenate regions, sum counts) gives the same regions and counts as one
\* call over df.  (The concatenated samples are left out: the code's sample
\* is de-duplicated by unique(), see C11.)
C18_ShardEquivalence ==
  Done =>
    /\ shard_result.bundesland =
         (IF outcome = "enhanced" THEN bundesland ELSE [i \in DOMAIN df |-> NA])
    /\ shard_result.stats.total_rows = stats.total_rows
    /\ shard_result.stats.matched_rows = stats.matched_rows

\* C19: every loaded facility dataset (parks, cemeteries, campgrounds) with
\* a city column is passed through the region resolution.
C19_AllDatasetsResolved ==
  pc = "done" =>
    \A ds \in Datasets :
      (Len(facility_data[ds]) > 0 /\ Len(pipe_cities) > 0 /\
       CityColumnOf(facility_cols[ds]) # "None") => ds \in merged_datasets

\* C20: among candidates with the maximal score the one appearing first in
\* the reference table wins, and the region is the mapping's (last row) value.
MaxAt(i, c) ==
  \A c2 \in CandSet :
    SimScore(NC(i), c2).num * SimScore(NC(i), c).den <= SimScore(NC(i), c).num * SimScore(NC(i), c2).den
C20_FuzzyTieBreak ==
  (Done /\ outcome = "enhanced") =>
    \A i \in DOMAIN df : method[i] = "fuzzy" =>
      LET js == {j \in DOMAIN cities_df : cities_df[j].Stadt # NaN /\ MaxAt(i, Clean(cities_df[j].Stadt))}
          j0 == CHOOSE j \in js : \A j2 \in js : j <= j2
      IN /\ matched[i] = Clean(cities_df[j0].Stadt)
         /\ bundesland[i] = LastRegion(matched[i])

C20_Witness ==
  Done /\ outcome = "enhanced" /\
  \E i \in DOMAIN df : method[i] = "fuzzy" /\
    \E c \in CandSet : c # matched[i] /\
      SimScore(NC(i), c).num * score[i].den = score[i].num * SimScore(NC(i), c).den


\* C21: parks and cemetery loading resolves with the first of
\* ['city','City','name','Name','stadt','Stadt'] present in the columns; with
\* no such column, or an empty cities table, no region column is added to the
\* df or the GeoDataFrame; the GeoDataFrame is resolved with the df's column.
C21_CityFieldSelection ==
  pc = "done" /\ load_ds \in {"parks", "cemetery"} =>
    /\ (Len(load_rows) > 0 /\ Len(load_cities) > 0 /\ CityColumnOf(load_cols) # "None")
         => used_col_df = CityColumnOf(load_cols)
    /\ (CityColumnOf(load_cols) = "None" \/ Len(load_cities) = 0) => ~df_region /\ ~gdf_region
    /\ used_col_gdf # "unused" => used_col_gdf = used_col_df

C21_Witness ==
  /\ pc = "done" /\ df_region /\ gdf_region
  /\ used_col_df = "name" /\ "Stadt" \in load_cols

\* C22: the filter keeps exactly the rows whose region equals the name, keeps
\* nothing for an empty dataset or one without a region column; the subsets
\* for two distinct names are disjoint and no unmatched row is in either.
C22_FilterExact ==
  pc = "done" /\ view_r1 # view_r2 =>
    LET d == view_data["parks"]
    IN /\ view_hascol["parks"] =>
            \A i \in DOMAIN d : (i \in filt_out1 <=> d[i].region = view_r1) /\
                                (i \in filt_out2 <=> d[i].region = view_r2)
       /\ (Len(d) = 0 \/ ~view_hascol["parks"]) => filt_out1 = {} /\ filt_out2 = {}
       /\ filt_out1 \cap filt_out2 = {}
       /\ \A i \in filt_out1 \cup filt_out2 : d[i].region # NA

C22_Witness ==
  /\ pc = "done" /\ filt_out1 # {} /\ filt_out2 # {}
  /\ \E i \in DOMAIN view_data["parks"] : view_data["parks"][i].region = NA

\* C23: total_locations is parks_count + cemetery_count + camping_count, each
\* count is the number of rows of that filtered dataset whose region is r, and
\* total_area is the area sum over exactly those rows.
RowsOfRegion(ds) ==
  IF view_hascol[ds] THEN {i \in DOMAIN view_data[ds] : view_data[ds][i].region = view_r1} ELSE {}
AllRowsOfRegion == UNION {{<<ds, i>> : i \in RowsOfRegion(ds)} : ds \in Datasets}
RECURSIVE SumPairs(_)
SumPairs(P) ==
  IF P = {} THEN 0
  ELSE LET p == CHOOSE p \in P : TRUE IN view_data[p[1]][p[2]].area + SumPairs(P \ {p})
C23_RegionStats ==
  pc = "done" =>
    /\ view_stats.total_locations =
         view_stats.parks_count + view_stats.cemetery_count + view_stats.camping_count
    /\ view_stats.parks_count = Cardinality(RowsOfRegion("parks"))
    /\ view_stats.cemetery_count = Cardinality(RowsOfRegion("cemetery"))
    /\ view_stats.camping_count = Cardinality(RowsOfRegion("camping"))
    /\ view_stats.total_area = SumPairs(AllRowsOfRegion)

C23_Witness ==
  /\ pc = "done" /\ view_stats.parks_count > 0 /\ view_stats.cemetery_count > 0
  /\ view_stats.total_area > view_stats.total_locations
  /\ \E ds \in Datasets : view_hascol[ds] /\ Len(view_data[ds]) > Cardinality(RowsOfRegion(ds))

\* the call left through the except clause: a step raised
MergeRaised == Done /\ merge_stage \in {"col", "stadt", "score"}

\* C24 (as stated): when a step raises, the original input comes back
\* unchanged and without a region column.
C24_ErrorReturnsInputAsStated ==
  MergeRaised =>
    /\ returned_alias /\ out_columns = in_columns /\ caller_columns = in_columns
    /\ "bundesland" \notin out_columns

\* C24 (amended): when a step raises, the caller's df object comes back
\* unchanged: the same columns, and a 'bundesland' column only if the input
\* had one, with none of this call's values in it.
C24_ErrorReturnsInput ==
  MergeRaised =>
    /\ returned_alias /\ out_columns = in_columns /\ ~out_fresh
    /\ caller_columns = in_columns /\ ~caller_fresh

C24_Witness ==
  MergeRaised /\ merge_stage = "score" /\ "bundesland" \in in_columns

\* C25: a facility with a region holds the Bundesland of a reference row
\* whose cleaned name is the facility's cleaned city (exact) or the chosen
\* fuzzy candidate.
C25_RegionSound ==
  (Done /\ outcome = "enhanced") =>
    \A i \in DOMAIN df : bundesland[i] # NA =>
      \E j \in DOMAIN cities_df :
        /\ cities_df[j].Bundesland = bundesland[i]
        /\ \/ method[i] = "exact" /\ Clean(cities_df[j].Stadt) = NC(i)
           \/ method[i] = "fuzzy" /\ Clean(cities_df[j].Stadt) = matched[i]

C25_Witness ==
  /\ Done /\ outcome = "enhanced"
  /\ \E i \in DOMAIN df : method[i] = "fuzzy" /\ bundesland[i] # NA
  /\ \E i \in DOMAIN df : method[i] = "exact" /\ bundesland[i] # NA

\* C26: resolving the returned table again with the same reference table
\* and city column gives the same region column; the second call recomputes
\* it, with the values a call on the table without a region column gives.
C26_ResolveIdempotent ==
  (Done /\ again_outcome # "none") =>
    /\ again_regions = FirstOutRegions
    /\ again_outcome = "enhanced" =>
         again_regions = MergeResult(df, cities_df, in_columns, df_float, cities_float).bundesland

C26_Witness ==
  /\ Done /\ again_outcome = "enhanced"
  /\ \E i \in DOMAIN df : in_regions # <<>> /\ in_regions[i] = "Y" /\ again_regions[i] # "Y"
  /\ \E i \in DOMAIN df : method[i] = "exact" /\ bundesland[i] # NA

\* C27: after any sequence of slider and number-input changes the filtering
\* range min_groesse is the range the user set last; after a slider change
\* the manual inputs equal the new slider range too.
C27_RangeSync ==
  ui_events > 0 =>
    /\ min_groesse = last_set
    /\ last_event = "slider" => <<manual_min, manual_max>> = last_set

\* C28: berechne_arbeiter is 0 exactly for area_ha <= 0, at least 1
\* otherwise, and non-decreasing in area_ha for fixed positive parameters.
C28_ArbeiterMonotone ==
  pc = "arbeiter_done" =>
    /\ (calc_out.w1 = 0 <=> calc_in.a1 <= 0)
    /\ calc_in.a1 > 0 => calc_out.w1 >= 1
    /\ calc_out.w1 <= calc_out.w2

C28_Witness ==
  /\ pc = "arbeiter_done"
  /\ calc_in.a1 = 0 /\ calc_out.w1 = 0
  /\ calc_out.w2 > 1

\* C29: Abrunden <= Gleitkomma <= Aufrunden, 0 for 0 workers, and 0 for an
\* unknown method label (results in hundredths).
C29_BikeMethodsOrdered ==
  pc = "bikes_done" =>
    /\ calc_out["Abrunden"] <= calc_out["Gleitkomma"]
    /\ calc_out["Gleitkomma"] <= calc_out["Aufrunden"]
    /\ calc_in.w = 0 => \A meth \in Methods : calc_out[meth] = 0
    /\ calc_out["Andere"] = 0

C29_Witness ==
  /\ pc = "bikes_done" /\ calc_in.w > 0
  /\ calc_out["Abrunden"] < calc_out["Gleitkomma"]
  /\ calc_out["Gleitkomma"] < calc_out["Aufrunden"]
  /\ calc_out["Gleitkomma"] % 100 # 0

====
